---- MODULE Spec2Model ----
(***************************************************************************)
(* A model of train.py: the StyleGAN2 transfer-learning training loop      *)
(* (train), its helpers (requires_grad, accumulate, mixing_noise,          *)
(* sample_data) and the resume logic of the script's __main__ block.       *)
(*                                                                         *)
(* Parameter names are sequences of tokens ("convs.", "1", "0", ".", ...)  *)
(* so that Python's substring test `target_layer in name` is modelled by   *)
(* a real substring test.  Tensor values are fixed-point integers.         *)
(***************************************************************************)
EXTENDS Integers, Sequences, FiniteSets, TLC

\* ------------------------------------------------------------------ bounds

\* log2 of the image size the networks are built for (args.size = 2^LogSize).
LogSize == 4
\* Largest args.start_iter and args.iter that train is called with.
MaxStart == 2
MaxIter == 2
\* Largest freezeG / freezeD depth.
MaxFreezeG == 2
MaxFreezeD == 1
\* Largest d_reg_every / g_reg_every.
MaxRegEvery == 2
\* Largest value of a regularisation loss (R1 penalty, path length).
MaxLoss == 1

\* ----------------------------------------------------------- text helpers

DigitChar == <<"0", "1", "2", "3", "4", "5", "6", "7", "8", "9">>

\* str(n) of a Python int, as it appears in an f-string.
RECURSIVE Digits(_)
Digits(n) ==
    IF n < 0 THEN <<"-">> \o Digits(-n)
    ELSE IF n < 10 THEN <<DigitChar[n + 1]>>
    ELSE Digits(n \div 10) \o <<DigitChar[(n % 10) + 1]>>

\* Python's `pat in name` on strings.
Contains(pat, name) ==
    \E k \in 0..(Len(name) - Len(pat)) : SubSeq(name, k + 1, k + Len(pat)) = pat

\* target_layer=None
None == <<"<None>">>

\* f'convs.{n}', f'to_rgbs.{n}', 'final_'
ConvsPat(n) == <<"convs.">> \o Digits(n)
ToRgbsPat(n) == <<"to_rgbs.">> \o Digits(n)
FinalPat == <<"final_">>

\* ------------------------------------------------------ requires_grad

\* A broken requires_grad that compares the pattern with the start of the
\* name only (str.startswith instead of `in`).
requires_grad_prefix(model, flag, target_layer) ==
    [name \in DOMAIN model |->
        IF target_layer = None
             \/ (Len(target_layer) <= Len(name)
                 /\ SubSeq(name, 1, Len(target_layer)) = target_layer)
        THEN flag ELSE model[name]]

\* requires_grad(model, flag, target_layer): model is the map from a
\* network's parameter names to their requires_grad flags.
requires_grad(model, flag, target_layer) ==
    [name \in DOMAIN model |->
        IF target_layer = None \/ Contains(target_layer, name)
        THEN flag ELSE model[name]]

\* --------------------------------------------------------- the networks

\* Generator.num_layers and Generator.log_size for an image of 2^LogSize.
log_size == LogSize
num_layers == (log_size - 2) * 2 + 1

\* named_parameters() of a Generator, in order: the mapping network, the
\* constant input, the first block, then the convs and the to_rgbs (two
\* convs and one to_rgb per resolution).
GenOrder ==
    <<  <<"style.", "1", ".", "weight">>, <<"input.", "input">>,
        <<"conv1.", "conv.", "weight">>, <<"to_rgb1.", "conv.", "weight">>  >>
    \o [j \in 1..(num_layers - 1) |-> ConvsPat(j - 1) \o <<".", "conv.", "weight">>]
    \o [j \in 1..(log_size - 2) |-> ToRgbsPat(j - 1) \o <<".", "conv.", "weight">>]

GenNames == {GenOrder[j] : j \in 1..Len(GenOrder)}

\* named_parameters() of a Discriminator: convs.0 (from-RGB) down to
\* convs.(log_size-2), then final_conv and final_linear.
DiscOrder ==
    [j \in 1..(log_size - 1) |-> ConvsPat(j - 1) \o <<".", "0", ".", "weight">>]
    \o <<  <<"final_", "conv.", "0", ".", "weight">>,
           <<"final_", "linear.", "0", ".", "weight">>  >>

DiscNames == {DiscOrder[j] : j \in 1..Len(DiscOrder)}

\* named_parameters() of nn.parallel.DistributedDataParallel(net): every
\* name of the wrapped module with "module." in front.
Wrap(names, distributed) ==
    IF distributed THEN {<<"module.">> \o n : n \in names} ELSE names

\* generator.module / discriminator.module: the names without the prefix.
Unwrap(name, distributed) == IF distributed THEN Tail(name) ELSE name

\* --------------------------------------------------------------- accumulate

\* One unit of a tensor value in the fixed-point representation.
Unit == 10 * 100

\* accum = 0.5 ** (32 / (10 * 1000)) = 0.99778..., as <<numerator, denominator>>.
accum == <<998, 10 * 100>>

\* par1[k].data.mul_(decay).add_(par2[k].data, alpha=1 - decay)
Ema(x, y, decay) == (x * decay[1] + y * (decay[2] - decay[1])) \div decay[2]

\* The loop `for k in par1.keys()` from the j-th key on: par2[k] raises
\* KeyError at the first key model2 lacks, and the keys before it stay updated.
RECURSIVE AccumulateFrom(_, _, _, _, _)
AccumulateFrom(names, j, data, par2, decay) ==
    IF j > Len(names) THEN [data |-> data, err |-> FALSE]
    ELSE LET k == names[j]
         IN  IF k \notin DOMAIN par2 THEN [data |-> data, err |-> TRUE]
             ELSE AccumulateFrom(names, j + 1,
                     [data EXCEPT ![k] = Ema(data[k], par2[k], decay)],
                     par2, decay)

\* accumulate(model1, model2, decay): a model is [names |-> the sequence
\* named_parameters() yields, data |-> name -> value].  The result is the
\* data of model1 afterwards and whether the call raised.
accumulate(model1, model2, decay) ==
    AccumulateFrom(model1.names, 1, model1.data, model2.data, decay)

\* ------------------------------------------------------------------ state

VARIABLES
    args,               \* the argparse namespace (with start_iter, distributed)
    pc,                 \* the position in the script and in train
    idx,                \* the loop variable of `for idx in range(num_iterations)`
    num_iterations,     \* train's local
    g_flags, d_flags,   \* requires_grad of every parameter, by the name that
                        \* generator / discriminator.named_parameters() gives
    g_grad, d_grad,     \* the parameters whose .grad is populated
    g_data, d_data,     \* parameter values, by the unwrapped module's names
    optim,              \* the state of g_optim and d_optim: the steps taken
    src_data, src_flags, src_grad,  \* generator_source: values, requires_grad
                        \* and the parameters whose .grad is populated
    ema_data,           \* the parameter values of g_ema
    ema_err,            \* accumulate raised
    mean_path_length, mean_path_length_avg,
    r1_loss, path_loss, path_lengths,
    loss_dict,          \* the keys set so far and their values
    ada_aug_p, r_t_stat,
    ada_augment,        \* the AdaptiveAugment object, or NoAda
    loader_pos,         \* the position of sample_data(loader) in its pass
    trace,              \* the calls made so far in the current iteration
    executed,           \* the indices i whose iteration body has run
    before,             \* what the current iteration started from
    ckpt_file,          \* the checkpoint file args.ckpt names
    saved,              \* the checkpoints written by this run
    rg_model, rg_prev, rg_call,                 \* requires_grad under test
    acc_model1, acc_model2, acc_decay, acc_out, \* accumulate under test
    mix,                \* mixing_noise under test
    sd,                 \* the generator sample_data(loader) under test
    workers             \* the processes of a multi-worker run, by rank

trainVars ==
    <<args, pc, idx, num_iterations, g_flags, d_flags, g_grad, d_grad, g_data,
      d_data, ema_data, ema_err, mean_path_length, mean_path_length_avg,
      r1_loss, path_loss, path_lengths, loss_dict, ada_aug_p, r_t_stat,
      ada_augment, loader_pos, trace, executed, before, ckpt_file, saved, optim,
      src_data, src_flags, src_grad>>
srcVars == <<src_data, src_flags, src_grad>>
rgVars == <<rg_model, rg_prev, rg_call>>
accVars == <<acc_model1, acc_model2, acc_decay, acc_out>>
auxVars == <<mix, sd, workers>>
vars == <<trainVars, rgVars, accVars, auxVars>>

\* ----------------------------------------------------------- the handles

\* `generator` as train receives it: the DistributedDataParallel wrapper
\* when args.distributed, the module itself otherwise.
generator(a) == IF a.distributed THEN "DDP(generator)" ELSE "generator"
discriminator(a) == IF a.distributed THEN "DDP(discriminator)" ELSE "discriminator"

\* wrapper.module
Module(h) ==
    CASE h = "DDP(generator)" -> "generator"
      [] h = "DDP(discriminator)" -> "discriminator"
      [] OTHER -> "AttributeError"

\* A broken g_module that keeps the wrapper.
g_module_wrapped(a) == generator(a)

\* g_module = generator.module if args.distributed else generator
g_module(a) == IF a.distributed THEN Module(generator(a)) ELSE generator(a)

\* named_parameters() of a generator handle as a model for accumulate.
NamedParameters(h, order, data) ==
    IF h \in {"DDP(generator)", "DDP(discriminator)"}
    THEN [names |-> [j \in 1..Len(order) |-> <<"module.">> \o order[j]],
          data |-> [n \in Wrap(DOMAIN data, TRUE) |-> data[Tail(n)]]]
    ELSE [names |-> order, data |-> data]

\* An entry of trace: the call op, on what, in which phase, with which number.
Ev(op, on, ph, arg) == [op |-> op, on |-> on, ph |-> ph, arg |-> arg]

\* A broken update that steps the optimizer before the backward pass.
UpdateOps_stepfirst(net, ph) ==
    <<Ev("zero_grad", net, ph, 0), Ev("step", net, ph, 0), Ev("backward", net, ph, 0)>>

\* net.zero_grad(); loss.backward(); optim.step() of network net ("D" or
\* "G") in phase ph.
UpdateOps(net, ph) ==
    <<Ev("zero_grad", net, ph, 0), Ev("backward", net, ph, 0), Ev("step", net, ph, 0)>>

\* The entries of a sequence t that satisfy Test.
Count(t, op, on) == Cardinality({j \in 1..Len(t) : t[j].op = op /\ t[j].on = on})
Positions(t, op, on) == {j \in 1..Len(t) : t[j].op = op /\ t[j].on = on}

\* ------------------------------------------------------- the freeze ladder

\* for layer in range(k): requires_grad(generator, flag, f'convs.{..}') x2
\*                        requires_grad(generator, flag, f'to_rgbs.{..}')
RECURSIVE GLayers(_, _, _, _)
GLayers(m, flag, layer, k) ==
    IF layer >= k THEN m
    ELSE GLayers(
            requires_grad(
              requires_grad(
                requires_grad(m, flag, <<"convs.">> \o Digits(num_layers - 2 - 2 * layer)),
                flag, <<"convs.">> \o Digits(num_layers - 3 - 2 * layer)),
              flag, <<"to_rgbs.">> \o Digits(log_size - 3 - layer)),
            flag, layer + 1, k)

\* for layer in range(k): requires_grad(discriminator, flag, f'convs.{..}')
\* requires_grad(discriminator, flag, 'final_')
RECURSIVE DLayers(_, _, _, _)
DLayers(m, flag, layer, k) ==
    IF layer >= k THEN requires_grad(m, flag, <<"final_">>)
    ELSE DLayers(requires_grad(m, flag, <<"convs.">> \o Digits(log_size - 2 - layer)),
                 flag, layer + 1, k)

\* A broken discriminator-phase ladder without the blanket freeze of the
\* generator.
PhaseD_G_noblanket(a, g) ==
    IF a.freezeG > 0 THEN GLayers(g, FALSE, 0, a.freezeG)
    ELSE requires_grad(g, FALSE, None)

\* The generator's flags after the blanket freeze and the ladder of the
\* discriminator phase.
PhaseD_G(a, g) ==
    LET g0 == requires_grad(g, FALSE, None)
    IN  IF a.freezeG > 0 /\ a.freezeD > 0 THEN GLayers(g0, FALSE, 0, a.freezeG)
        ELSE IF a.freezeG > 0 THEN GLayers(g0, FALSE, 0, a.freezeG)
        ELSE IF a.freezeD > 0 THEN requires_grad(g0, FALSE, None)
        ELSE requires_grad(g0, FALSE, None)

\* A broken discriminator-phase ladder without the blanket freeze of the
\* discriminator.
PhaseD_D_noblanket(a, d) ==
    IF a.freezeD > 0 THEN DLayers(d, TRUE, 0, a.freezeD)
    ELSE requires_grad(d, TRUE, None)

\* The discriminator's flags after the blanket freeze and the ladder of the
\* discriminator phase.
PhaseD_D(a, d) ==
    LET d0 == requires_grad(d, FALSE, None)
    IN  IF a.freezeG > 0 /\ a.freezeD > 0 THEN DLayers(d0, TRUE, 0, a.freezeD)
        ELSE IF a.freezeG > 0 THEN requires_grad(d0, TRUE, None)
        ELSE IF a.freezeD > 0 THEN DLayers(d0, TRUE, 0, a.freezeD)
        ELSE requires_grad(d0, TRUE, None)

\* A broken generator-phase ladder that unfreezes the whole generator.
PhaseG_G_all(a, g) == requires_grad(g, TRUE, None)

\* The generator's flags after the ladder of the generator phase.
PhaseG_G(a, g) ==
    IF a.freezeG > 0 /\ a.freezeD > 0 THEN GLayers(g, TRUE, 0, a.freezeG)
    ELSE IF a.freezeG > 0 THEN GLayers(g, TRUE, 0, a.freezeG)
    ELSE IF a.freezeD > 0 THEN requires_grad(g, TRUE, None)
    ELSE requires_grad(g, TRUE, None)

\* The discriminator's flags after the ladder of the generator phase.
PhaseG_D(a, d) ==
    IF a.freezeG > 0 /\ a.freezeD > 0 THEN DLayers(d, FALSE, 0, a.freezeD)
    ELSE IF a.freezeG > 0 THEN requires_grad(d, FALSE, None)
    ELSE IF a.freezeD > 0 THEN DLayers(d, FALSE, 0, a.freezeD)
    ELSE requires_grad(d, FALSE, None)

\* ------------------------------------------------- autograd and optimizers

\* loss.backward(): every parameter with requires_grad that the loss
\* depends on gets a gradient.
Backward(grad, flags) == grad \cup {n \in DOMAIN flags : flags[n]}

\* optim.step(): every parameter with a gradient moves (by one Unit).  The
\* optimizers hold the unwrapped modules' parameters.
Step(data, grad, distributed) ==
    [n \in DOMAIN data |->
        IF \E w \in grad : Unwrap(w, distributed) = n
        THEN data[n] + Unit ELSE data[n]]

\* g_path_regularize(fake_img, latents, mean_path_length, decay=0.01) for
\* path lengths whose mean is pl: <<path_penalty, path_mean, path_lengths>>.
g_path_regularize(pl, mpl) ==
    LET path_mean == mpl + (pl - mpl) \div 100
    IN  <<((pl - path_mean) * (pl - path_mean)) \div Unit, path_mean, pl>>

\* A broken construction that gives g_optim the teacher's parameters too.
OptimHolds_source(which) ==
    IF which = "g" THEN {"generator", "generator_source"} ELSE {"discriminator"}

\* The networks whose parameters an optimizer was constructed with:
\* optim.Adam(generator.parameters(), ...), optim.Adam(discriminator.parameters(), ...)
OptimHolds(which) == IF which = "g" THEN {"generator"} ELSE {"discriminator"}

\* The teacher's parameter values after a step of the optimizer `which`.
SourceStep(data, grad, which) ==
    IF "generator_source" \in OptimHolds(which) THEN Step(data, grad, FALSE) ELSE data

\* g_optim.step() / d_optim.step() on the optimizer's own state: the count
\* of steps taken.
OptimStep(o, which) == [o EXCEPT ![which] = @ + 1]

\* dict[k] = v
Put(d, k, v) == [x \in (DOMAIN d) \cup {k} |-> IF x = k THEN v ELSE d[x]]

\* ------------------------------------------------------- AdaptiveAugment

\* The update window train passes to AdaptiveAugment.
AdaUpdateEvery == 8

\* `ada_augment` before it is assigned.
NoAda == [ada_aug_target |-> 0, ada_aug_len |-> 0, update_every |-> 0,
          ada_update |-> 0, buf_signs |-> 0, buf_n |-> 0,
          r_t_stat |-> 0, ada_aug_p |-> 0]

\* AdaptiveAugment(ada_aug_target, ada_aug_len, update_every, device)
AdaptiveAugment(target, len, update_every) ==
    [ada_aug_target |-> target, ada_aug_len |-> len, update_every |-> update_every,
     ada_update |-> 0, buf_signs |-> 0, buf_n |-> 0,
     r_t_stat |-> 0, ada_aug_p |-> 0]

\* ada_augment.tune(real_pred) for a prediction of n values whose signs sum
\* to signs: accumulate, and once update_every calls are in, move
\* ada_aug_p by n_pred / ada_aug_len towards the target and reset.
AdaTune(ada, signs, n) ==
    LET sum == ada.buf_signs + signs
        cnt == ada.buf_n + n
        upd == ada.ada_update + 1
    IN  IF upd % ada.update_every = 0
        THEN LET r_t == (Unit * sum) \div cnt
                 sign == IF r_t > ada.ada_aug_target THEN 1 ELSE -1
                 p == ada.ada_aug_p + sign * ((Unit * cnt) \div ada.ada_aug_len)
                 clamped == IF p < 0 THEN 0 ELSE IF p > Unit THEN Unit ELSE p
             IN  [ada EXCEPT !.ada_update = 0, !.buf_signs = 0, !.buf_n = 0,
                             !.r_t_stat = r_t, !.ada_aug_p = clamped]
        ELSE [ada EXCEPT !.ada_update = upd, !.buf_signs = sum, !.buf_n = cnt]

\* -------------------------------------------------- checkpoint file names

\* The interval, in iterations, of sample images and checkpoints.
SaveEvery == 500

\* The largest iteration index a checkpoint on disk was written at.
MaxCkptIter == 999

\* os.path.join("/kaggle/working/checkpoints", f"model_checkpoint_{i}.pt")
CkptName(i) ==
    <<"/", "kaggle", "/", "working", "/", "checkpoints", "/",
      "model", "_", "checkpoint", "_">> \o Digits(i) \o <<".", "pt">>

\* A checkpoint named by its iteration alone: f"{i}.pt".
PlainName(i) == Digits(i) \o <<".", "pt">>

\* os.path.split(p): <<head, tail>>, tail being what follows the last "/".
os_path_split(p) ==
    LET slashes == {j \in 1..Len(p) : p[j] = "/"}
    IN  IF slashes = {} THEN << <<>>, p >>
        ELSE LET last == CHOOSE j \in slashes : \A k \in slashes : k <= j
             IN  << SubSeq(p, 1, last - 1), SubSeq(p, last + 1, Len(p)) >>

\* s.split(sep)[0]
SplitFirst(s, sep) ==
    LET at == {j \in 1..Len(s) : s[j] = sep}
    IN  IF at = {} THEN s
        ELSE SubSeq(s, 1, (CHOOSE j \in at : \A k \in at : j <= k) - 1)

IsDigit(c) == \E d \in 1..10 : DigitChar[d] = c
DigitValue(c) == (CHOOSE d \in 1..10 : DigitChar[d] = c) - 1

RECURSIVE DigitsValue(_)
DigitsValue(s) ==
    IF s = <<>> THEN 0
    ELSE LET c == s[Len(s)]
             rest == DigitsValue(SubSeq(s, 1, Len(s) - 1))
         IN  IF c = "_" THEN rest ELSE 10 * rest + DigitValue(c)

\* int(s) of a string: digits, with single underscores between digits
\* allowed; anything else raises ValueError.
PyInt(s) ==
    LET wellformed ==
            /\ s # <<>>
            /\ \A j \in 1..Len(s) : IsDigit(s[j]) \/ s[j] = "_"
            /\ IsDigit(s[1]) /\ IsDigit(s[Len(s)])
            /\ \A j \in 1..(Len(s) - 1) : ~(s[j] = "_" /\ s[j + 1] = "_")
    IN  IF wellformed THEN [ok |-> TRUE, val |-> DigitsValue(s), exc |-> "none"]
        ELSE [ok |-> FALSE, val |-> 0, exc |-> "ValueError"]

\* A broken parse that takes the piece after the first '.': of a string
\* without a '.' there is none and the subscript raises IndexError.
ParseStartIter_second(ckpt) ==
    LET s == os_path_split(<<"_">>)[2]
        at == {j \in 1..Len(s) : s[j] = "."}
    IN  IF at = {} THEN [ok |-> FALSE, val |-> 0, exc |-> "IndexError"]
        ELSE PyInt(SplitFirst(
                SubSeq(s, (CHOOSE j \in at : \A k \in at : j <= k) + 1, Len(s)), "."))

\* int(os.path.split('_')[-1].split('.')[0]): the argument of
\* os.path.split is the string literal '_', not the checkpoint's path.
ParseStartIter(ckpt) == PyInt(SplitFirst(os_path_split(<<"_">>)[2], "."))

\* ------------------------------------------------------------ the inputs

\* args.ada_length of the runs modelled.
AdaLength == 16

\* The default of --ada_every.
AdaEveryDefault == 256

FreezeGVals == (-1)..MaxFreezeG
FreezeDVals == {-1} \cup (1..MaxFreezeD)
AugPVals == {0, Unit \div 2}

\* The augmentation options and the transfer-learning options; a run
\* modelled varies the ones or the others from their defaults.
AugOpts == [augment : BOOLEAN, augment_p : AugPVals]
ModeOpts == [freezeStyle : {-1, 0}, freezeFC : BOOLEAN, structure_loss : {-1, 1}]
Variants ==
    {<<o, [freezeStyle |-> -1, freezeFC |-> FALSE, structure_loss |-> -1]>> : o \in AugOpts}
    \cup {<<[augment |-> FALSE, augment_p |-> 0], m>> : m \in ModeOpts}

\* The namespaces parse_args and lines 603-614 can give.
ArgsOf(start_iters, iters, ckpts) ==
    {[iter |-> c.iter, start_iter |-> c.start_iter, ckpt |-> c.ckpt,
      freezeG |-> c.freezeG, freezeD |-> c.freezeD,
      d_reg_every |-> c.d_reg_every, g_reg_every |-> c.g_reg_every,
      distributed |-> c.distributed,
      ada_target |-> (6 * Unit) \div 10, ada_length |-> AdaLength,
      ada_every |-> AdaEveryDefault,
      augment |-> v[1].augment, augment_p |-> v[1].augment_p,
      freezeStyle |-> v[2].freezeStyle, freezeFC |-> v[2].freezeFC,
      structure_loss |-> v[2].structure_loss] :
        c \in [iter : iters, start_iter : start_iters, ckpt : ckpts,
               freezeG : FreezeGVals, freezeD : FreezeDVals,
               d_reg_every : 1..MaxRegEvery, g_reg_every : 1..MaxRegEvery,
               distributed : BOOLEAN],
        v \in Variants}

\* The iterations at which a run writes a checkpoint: (i + 1) % 500 == 0.
CkptIters == {n \in 0..MaxCkptIter : (n + 1) % SaveEvery = 0}

\* A checkpoint file as torch.save wrote it at iteration n.
CkptFile(n, p) ==
    [path |-> CkptName(n), iter |-> n,
     g |-> [k \in GenNames |-> 3 * Unit],
     d |-> [k \in DiscNames |-> 4 * Unit],
     g_ema |-> [k \in GenNames |-> 5 * Unit],
     g_optim |-> n + 1, d_optim |-> 2 * (n + 1),
     ada_aug_p |-> p]

NoCkptFile ==
    [path |-> None, iter |-> 0,
     g |-> [k \in GenNames |-> 0], d |-> [k \in DiscNames |-> 0],
     g_ema |-> [k \in GenNames |-> 0], g_optim |-> 0, d_optim |-> 0,
     ada_aug_p |-> 0]

\* The values an iteration starts from.
Snapshot(g, d, mpl, r1, gf, df) ==
    [g_data |-> g, d_data |-> d, mean_path_length |-> mpl, r1_loss |-> r1,
     g_flags |-> gf, d_flags |-> df]

\* The state common to every start: freshly constructed networks.
InitCommon ==
    /\ idx = 0
    /\ num_iterations = 0
    /\ g_grad = {}
    /\ d_grad = {}
    /\ g_data = [k \in GenNames |-> Unit]
    /\ d_data = [k \in DiscNames |-> Unit]
    /\ ema_err = FALSE
    /\ mean_path_length = 0
    /\ mean_path_length_avg = 0
    /\ r1_loss = 0
    /\ path_loss = 0
    /\ path_lengths = 0
    /\ loss_dict = [x \in {} |-> 0]
    /\ ada_aug_p = 0
    /\ r_t_stat = 0
    /\ ada_augment = NoAda
    /\ loader_pos = 0
    /\ trace = <<>>
    /\ executed = {}
    /\ before = Snapshot(g_data, d_data, 0, 0, <<>>, <<>>)
    /\ saved = {}
    /\ optim = [g |-> 0, d |-> 0]
    /\ src_data = [k \in GenNames |-> 2 * Unit]
    /\ src_flags = [k \in GenNames |-> TRUE]
    /\ src_grad = {}

IdleRG == rg_model = <<>> /\ rg_prev = <<>> /\ rg_call = <<>>
IdleAcc == acc_model1 = <<>> /\ acc_model2 = <<>> /\ acc_decay = <<>> /\ acc_out = <<>>
IdleMix == mix = <<>>
IdleSD == sd = <<>>
IdleWorkers == workers = <<>>

\* train(args, loader, generator, ...) is called: any start_iter, any
\* requires_grad flags left on the two networks, g_ema holding a copy of
\* the generator.
Init ==
    /\ InitCommon
    /\ pc = "train"
    /\ args \in ArgsOf(0..MaxStart, 1..MaxIter, {None})
    /\ ckpt_file = NoCkptFile
    /\ \E b \in BOOLEAN :
          /\ g_flags = [n \in Wrap(GenNames, args.distributed) |-> b]
          /\ d_flags = [n \in Wrap(DiscNames, args.distributed) |-> b]
    /\ ema_data = [k \in GenNames |-> Unit]
    /\ IdleRG /\ IdleAcc /\ IdleMix /\ IdleSD /\ IdleWorkers

\* ------------------------------------------------------------------ train

\* The number of batches of one pass over the loader.
LoaderLen == 2

\* The iteration index of the current pass of the loop.
i == idx + args.start_iter

\* if i > args.iter: print("Done!"); break
ExitTest(a, n) == n > a.iter

\* A broken R1 gate that regularises on every iteration.
d_regularize_always(a, n) == TRUE

\* A broken R1 gate that never regularises.
d_regularize_never(a, n) == FALSE

\* d_regularize = i % args.d_reg_every == 0
d_regularize(a, n) == n % a.d_reg_every = 0

\* A broken path-length gate that ignores freezeG.
g_regularize_nofreeze(a, n) == n % a.g_reg_every = 0

\* args.freezeG < 0 and g_regularize
g_regularize(a, n) == a.freezeG < 0 /\ n % a.g_reg_every = 0

\* A broken gate that tunes whenever augmentation is on.
adaptive_any(a) == a.augment

\* args.augment and args.augment_p == 0
adaptive(a) == a.augment /\ a.augment_p = 0

\* Lines 131-169: the locals of train before the loop.
TrainInit ==
    /\ pc = "train"
    /\ num_iterations' = args.iter + args.start_iter
    /\ mean_path_length' = 0
    /\ r1_loss' = 0
    /\ path_loss' = 0
    /\ path_lengths' = 0
    /\ mean_path_length_avg' = 0
    /\ loss_dict' = [x \in {} |-> 0]
    /\ ada_aug_p' = IF args.augment_p > 0 THEN args.augment_p ELSE 0
    /\ r_t_stat' = 0
    /\ ada_augment' = IF adaptive(args)
                      THEN AdaptiveAugment(args.ada_target, args.ada_length, AdaUpdateEvery)
                      ELSE ada_augment
    /\ idx' = 0
    /\ trace' = <<>>
    /\ pc' = "top"
    /\ UNCHANGED <<before, args, g_flags, d_flags, g_grad, d_grad, g_data, d_data, ema_data,
                   ema_err, loader_pos, executed, ckpt_file, saved, rgVars, accVars, auxVars, srcVars, optim>>

\* Lines 173-182: the loop header, the exit test and the batch fetch.
LoopTop ==
    /\ pc = "top"
    /\ IF idx >= num_iterations
       THEN /\ pc' = "done"
            /\ UNCHANGED <<trace, loader_pos, executed, before>>
       ELSE IF ExitTest(args, i)
       THEN /\ pc' = "done"
            /\ trace' = <<Ev("exit_test", "i", "top", i)>>
            /\ UNCHANGED <<loader_pos, executed, before>>
       ELSE /\ pc' = "phaseD"
            /\ trace' = <<Ev("exit_test", "i", "top", i),
                          Ev("next", "loader", "top", loader_pos)>>
            /\ loader_pos' = (loader_pos + 1) % LoaderLen
            /\ executed' = executed \cup {i}
            /\ before' = Snapshot(g_data, d_data, mean_path_length, r1_loss, g_flags, d_flags)
    /\ UNCHANGED <<args, idx, num_iterations, g_flags, d_flags, g_grad, d_grad, g_data,
                   d_data, ema_data, ema_err, mean_path_length, mean_path_length_avg,
                   r1_loss, path_loss, path_lengths, loss_dict, ada_aug_p, r_t_stat,
                   ada_augment, ckpt_file, saved, rgVars, accVars, auxVars, srcVars, optim>>

\* Lines 185-260: the discriminator phase.
PhaseD ==
    /\ pc = "phaseD"
    /\ LET gf == PhaseD_G(args, g_flags)
           df == PhaseD_D(args, d_flags)
           grads == Backward({}, df)
           teacher == IF args.freezeStyle >= 0 \/ args.freezeFC
                      THEN <<Ev("forward", "generator_source", "d", 0)>> ELSE <<>>
           aug == IF args.augment
                  THEN <<Ev("augment", "real_img", "d", ada_aug_p),
                         Ev("augment", "fake_img", "d", ada_aug_p)>>
                  ELSE <<>>
       IN  /\ g_flags' = gf
           /\ d_flags' = df
           /\ g_grad' = Backward(g_grad, gf)
           /\ d_grad' = grads
           /\ d_data' = Step(d_data, grads, args.distributed)
           /\ optim' = OptimStep(optim, "d")
           /\ src_grad' = IF teacher # <<>> THEN Backward(src_grad, src_flags)
                           ELSE src_grad
           /\ src_data' = SourceStep(src_data, src_grad', "d")
           /\ trace' = trace \o teacher
                       \o <<Ev("forward", generator(args), "d", 0)>> \o aug
                       \o <<Ev("forward", discriminator(args), "d", 0),
                            Ev("forward", discriminator(args), "d", 0)>>
                       \o UpdateOps("D", "d")
    /\ loss_dict' = Put(Put(Put(loss_dict, "d", 0), "real_score", 0), "fake_score", 0)
    /\ pc' = "tune"
    /\ UNCHANGED <<before, args, idx, num_iterations, g_data, ema_data, ema_err,
                   mean_path_length, mean_path_length_avg, r1_loss, path_loss,
                   path_lengths, ada_aug_p, r_t_stat, ada_augment, loader_pos,
                   executed, ckpt_file, saved, rgVars, accVars, auxVars, src_flags>>

\* Lines 262-264: the adaptive tuning of the augmentation probability, for
\* a batch of one real prediction of either sign.
Tune ==
    /\ pc = "tune"
    /\ IF adaptive(args)
       THEN \E signs \in {-1, 1} :
              LET ada == AdaTune(ada_augment, signs, 1)
              IN  /\ ada_augment' = ada
                  /\ ada_aug_p' = ada.ada_aug_p
                  /\ r_t_stat' = ada.r_t_stat
                  /\ trace' = Append(trace, Ev("tune", "ada_augment", "tune", signs))
       ELSE UNCHANGED <<ada_augment, ada_aug_p, r_t_stat, trace>>
    /\ pc' = "r1"
    /\ UNCHANGED <<before, args, idx, num_iterations, g_flags, d_flags, g_grad, d_grad, g_data,
                   d_data, ema_data, ema_err, mean_path_length, mean_path_length_avg,
                   r1_loss, path_loss, path_lengths, loss_dict, loader_pos, executed,
                   ckpt_file, saved, rgVars, accVars, auxVars, srcVars, optim>>

\* Lines 266-285: the R1 regularisation, whose penalty is any value up to
\* MaxLoss, and the r1 entry of the loss dict.
R1 ==
    /\ pc = "r1"
    /\ IF d_regularize(args, i)
       THEN \E penalty \in 0..MaxLoss :
              LET grads == Backward({}, d_flags)
                  aug == IF args.augment
                         THEN <<Ev("augment", "real_img", "r1", ada_aug_p)>> ELSE <<>>
              IN  /\ r1_loss' = penalty * Unit
                  /\ d_grad' = grads
                  /\ d_data' = Step(d_data, grads, args.distributed)
                  /\ optim' = OptimStep(optim, "d")
                  /\ src_data' = SourceStep(src_data, src_grad, "d")
                  /\ trace' = trace \o aug
                              \o <<Ev("forward", discriminator(args), "r1", 0)>>
                              \o UpdateOps("D", "r1")
       ELSE UNCHANGED <<r1_loss, d_grad, d_data, trace, optim, src_data>>
    /\ loss_dict' = Put(loss_dict, "r1", r1_loss')
    /\ pc' = "phaseG"
    /\ UNCHANGED <<before, args, idx, num_iterations, g_flags, d_flags, g_grad, g_data,
                   ema_data, ema_err, mean_path_length, mean_path_length_avg,
                   path_loss, path_lengths, ada_aug_p, r_t_stat, ada_augment,
                   loader_pos, executed, ckpt_file, saved, rgVars, accVars, auxVars, src_flags, src_grad>>

\* for layer in range(args.structure_loss): one forward of the teacher and
\* one of the generator per layer.
RECURSIVE StructureLoss(_, _, _)
StructureLoss(a, layer, n) ==
    IF layer >= n THEN <<>>
    ELSE <<Ev("forward", "generator_source", "g", layer + 1),
           Ev("forward", generator(a), "g", layer + 1)>>
         \o StructureLoss(a, layer + 1, n)

\* Lines 293-357: the generator phase.
PhaseG ==
    /\ pc = "phaseG"
    /\ LET gf == PhaseG_G(args, g_flags)
           df == PhaseG_D(args, d_flags)
           grads == Backward({}, gf)
           teacher == IF args.freezeStyle >= 0
                      THEN <<Ev("forward", "generator_source", "g", 0)>> ELSE <<>>
           aug == IF args.augment
                  THEN <<Ev("augment", "fake_img", "g", ada_aug_p)>> ELSE <<>>
           structure == IF args.structure_loss >= 0
                        THEN StructureLoss(args, 0, args.structure_loss) ELSE <<>>
       IN  /\ g_flags' = gf
           /\ d_flags' = df
           /\ g_grad' = grads
           /\ d_grad' = Backward(d_grad, df)
           /\ g_data' = Step(g_data, grads, args.distributed)
           /\ optim' = OptimStep(optim, "g")
           /\ src_grad' = IF teacher # <<>> \/ structure # <<>>
                           THEN Backward(src_grad, src_flags) ELSE src_grad
           /\ src_data' = SourceStep(src_data, src_grad', "g")
           /\ trace' = trace \o teacher
                       \o <<Ev("forward", generator(args), "g", 0)>> \o aug
                       \o <<Ev("forward", discriminator(args), "g", 0)>>
                       \o structure
                       \o UpdateOps("G", "g")
    /\ loss_dict' = Put(loss_dict, "g", 0)
    /\ pc' = "path"
    /\ UNCHANGED <<before, args, idx, num_iterations, d_data, ema_data, ema_err,
                   mean_path_length, mean_path_length_avg, r1_loss, path_loss,
                   path_lengths, ada_aug_p, r_t_stat, ada_augment, loader_pos,
                   executed, ckpt_file, saved, rgVars, accVars, auxVars, src_flags>>

\* Lines 359-386: the path-length regularisation, for path lengths of any
\* mean up to MaxLoss, and the path entries of the loss dict.  With several
\* workers reduce_sum adds the other worker's running mean, which is any
\* value this worker's could be.
PathReg ==
    /\ pc = "path"
    /\ IF g_regularize(args, i)
       THEN \E pl \in 0..MaxLoss, other \in {0, Unit \div 100} :
              LET r == g_path_regularize(pl * Unit, mean_path_length)
                  grads == Backward({}, g_flags)
              IN  /\ args.distributed \/ other = 0
                  /\ path_loss' = r[1]
                  /\ mean_path_length' = r[2]
                  /\ path_lengths' = r[3]
                  /\ g_grad' = grads
                  /\ g_data' = Step(g_data, grads, args.distributed)
                  /\ optim' = OptimStep(optim, "g")
                  /\ src_data' = SourceStep(src_data, src_grad, "g")
                  /\ mean_path_length_avg' =
                        IF args.distributed THEN (r[2] + other) \div 2 ELSE r[2]
                  /\ trace' = trace
                              \o <<Ev("forward", generator(args), "path", 0)>>
                              \o UpdateOps("G", "path")
                              \o <<Ev("reduce_sum", "mean_path_length", "path", r[2])>>
       ELSE UNCHANGED <<path_loss, mean_path_length, path_lengths, g_grad, g_data,
                        mean_path_length_avg, trace, optim, src_data>>
    /\ loss_dict' = Put(Put(loss_dict, "path", path_loss'), "path_length", path_lengths')
    /\ pc' = "ema"
    /\ UNCHANGED <<before, args, idx, num_iterations, g_flags, d_flags, d_grad, d_data,
                   ema_data, ema_err, r1_loss, ada_aug_p, r_t_stat, ada_augment,
                   loader_pos, executed, ckpt_file, saved, rgVars, accVars, auxVars, src_flags, src_grad>>

\* Line 388: accumulate(g_ema, g_module, accum).
EmaUpdate ==
    /\ pc = "ema"
    /\ LET source == g_module(args)
           r == accumulate(NamedParameters("g_ema", GenOrder, ema_data),
                           NamedParameters(source, GenOrder, g_data), accum)
       IN  /\ ema_data' = r.data
           /\ ema_err' = r.err
           /\ trace' = Append(trace, Ev("accumulate", source, "ema", 0))
           /\ pc' = IF r.err THEN "raised" ELSE "report"
    /\ UNCHANGED <<before, args, idx, num_iterations, g_flags, d_flags, g_grad, d_grad, g_data,
                   d_data, mean_path_length, mean_path_length_avg, r1_loss, path_loss,
                   path_lengths, loss_dict, ada_aug_p, r_t_stat, ada_augment,
                   loader_pos, executed, ckpt_file, saved, rgVars, accVars, auxVars, srcVars, optim>>

\* Lines 390-469: the loss reduction and the reporting block with the
\* periodic checkpoint, then the next pass of the loop.
Report ==
    /\ pc = "report"
    /\ trace' = Append(trace, Ev("reduce_loss_dict", "loss_dict", "report", 0))
    /\ saved' = IF (i + 1) % SaveEvery = 0
                THEN saved \cup {[path |-> CkptName(i), g |-> g_data, d |-> d_data,
                                  g_ema |-> ema_data, g_optim |-> optim.g,
                                  d_optim |-> optim.d, ada_aug_p |-> ada_aug_p]}
                ELSE saved
    /\ idx' = idx + 1
    /\ pc' = "top"
    /\ UNCHANGED <<before, args, num_iterations, g_flags, d_flags, g_grad, d_grad, g_data,
                   d_data, ema_data, ema_err, mean_path_length, mean_path_length_avg,
                   r1_loss, path_loss, path_lengths, loss_dict, ada_aug_p, r_t_stat,
                   ada_augment, loader_pos, executed, ckpt_file, rgVars, accVars, auxVars, srcVars, optim>>

Next ==
    \/ TrainInit
    \/ LoopTop
    \/ PhaseD
    \/ Tune
    \/ R1
    \/ PhaseG
    \/ PathReg
    \/ EmaUpdate
    \/ Report

Spec == Init /\ [][Next]_vars

\* --------------------------------------------- runs that fill the window

\* args.iter of the runs with adaptive augmentation: enough iterations for
\* the update window to fill.
AdaIters == 8

\* The values of --ada_every tried.
AdaEveryVals == {4, AdaEveryDefault}

\* train is called with any of the augmentation options, for AdaIters
\* iterations from iteration 0.
InitAda ==
    /\ InitCommon
    /\ pc = "train"
    /\ \E a \in ArgsOf({0}, {AdaIters}, {None}), e \in AdaEveryVals :
          /\ a.freezeG = 1 /\ a.freezeD = -1 /\ ~a.distributed
          /\ a.g_reg_every = 1
          /\ args = [a EXCEPT !.ada_every = e]
    /\ ckpt_file = NoCkptFile
    /\ g_flags = [n \in GenNames |-> TRUE]
    /\ d_flags = [n \in DiscNames |-> TRUE]
    /\ ema_data = [k \in GenNames |-> Unit]
    /\ IdleRG /\ IdleAcc /\ IdleMix /\ IdleSD /\ IdleWorkers

SpecAda == InitAda /\ [][Next]_vars

\* ------------------------------------------------------------- the script

\* state_dict loading with strict=False: the entries the file has.
load_state_dict(data, state) ==
    [k \in DOMAIN data |-> IF k \in DOMAIN state THEN state[k] ELSE data[k]]

\* The script is started: the networks are not built yet, args.ckpt names
\* no file or a checkpoint an earlier run wrote.
InitMain ==
    /\ InitCommon
    /\ pc = "main"
    /\ \E n \in CkptIters \cup {-1}, p \in AugPVals, plain \in BOOLEAN :
          /\ (n = -1 => (p = 0 /\ ~plain))
          /\ ckpt_file = IF n = -1 THEN NoCkptFile
                         ELSE IF plain THEN [CkptFile(n, p) EXCEPT !.path = PlainName(n)]
                         ELSE CkptFile(n, p)
          /\ args \in ArgsOf({0}, {1}, {ckpt_file.path})
    /\ g_flags = [n \in Wrap(GenNames, args.distributed) |-> TRUE]
    /\ d_flags = [n \in Wrap(DiscNames, args.distributed) |-> TRUE]
    /\ ema_data = [k \in GenNames |-> 2 * Unit]
    /\ IdleRG /\ IdleAcc /\ IdleMix /\ IdleSD /\ IdleWorkers

\* Lines 601-657: args.start_iter = 0, the networks and the optimizers are
\* built and g_ema is made a copy of the generator.
MainBuild ==
    /\ pc = "main"
    /\ args' = [args EXCEPT !.start_iter = 0]
    /\ LET r == accumulate(NamedParameters("g_ema", GenOrder, ema_data),
                           NamedParameters("generator", GenOrder, g_data), <<0, 1>>)
       IN  /\ ema_data' = r.data
           /\ ema_err' = r.err
           /\ pc' = IF r.err THEN "raised" ELSE "resume"
    /\ UNCHANGED <<idx, num_iterations, g_flags, d_flags, g_grad, d_grad, g_data,
                   d_data, mean_path_length, mean_path_length_avg, r1_loss, path_loss,
                   path_lengths, loss_dict, ada_aug_p, r_t_stat, ada_augment,
                   loader_pos, trace, executed, before, ckpt_file, saved,
                   rgVars, accVars, auxVars, srcVars, optim>>

\* Lines 664-705: the checkpoint, if one is named, is loaded: the start
\* iteration is parsed (a ValueError is passed over, any other exception
\* ends the script) and the states of the three networks and of the two
\* optimizers are loaded; then the networks are wrapped and train is
\* called.
MainResume ==
    /\ pc = "resume"
    /\ IF args.ckpt # None
       THEN LET parsed == ParseStartIter(args.ckpt)
            IN  IF parsed.exc \in {"none", "ValueError"}
                THEN /\ args' = IF parsed.ok THEN [args EXCEPT !.start_iter = parsed.val]
                                ELSE args
                     /\ g_data' = load_state_dict(g_data, ckpt_file.g)
                     /\ d_data' = load_state_dict(d_data, ckpt_file.d)
                     /\ ema_data' = load_state_dict(ema_data, ckpt_file.g_ema)
                     /\ optim' = [g |-> ckpt_file.g_optim, d |-> ckpt_file.d_optim]
                     /\ pc' = "train"
                ELSE /\ pc' = "raised"
                     /\ UNCHANGED <<args, g_data, d_data, ema_data, optim>>
       ELSE /\ pc' = "train"
            /\ UNCHANGED <<args, g_data, d_data, ema_data, optim>>
    /\ UNCHANGED <<idx, num_iterations, g_flags, d_flags, g_grad, d_grad, ema_err,
                   mean_path_length, mean_path_length_avg, r1_loss, path_loss,
                   path_lengths, loss_dict, ada_aug_p, r_t_stat, ada_augment,
                   loader_pos, trace, executed, before, ckpt_file, saved,
                   rgVars, accVars, auxVars, srcVars>>

NextMain ==
    \/ MainBuild
    \/ MainResume
    \/ TrainInit
    \/ LoopTop
    \/ PhaseD
    \/ Tune
    \/ R1
    \/ PhaseG
    \/ PathReg
    \/ EmaUpdate
    \/ Report

SpecMain == InitMain /\ [][NextMain]_vars

\* ------------------------------------------------ requires_grad under test

\* The train state of a run that only exercises a helper.
IdleTrain ==
    /\ InitCommon
    /\ pc = "idle"
    /\ args \in ArgsOf({0}, {1}, {None})
    /\ args.freezeG = -1 /\ args.freezeD = -1 /\ ~args.distributed
    /\ args.d_reg_every = 1 /\ args.g_reg_every = 1
    /\ ~args.augment /\ args.augment_p = 0
    /\ args.freezeStyle = -1 /\ ~args.freezeFC /\ args.structure_loss = -1
    /\ ckpt_file = NoCkptFile
    /\ g_flags = [n \in GenNames |-> TRUE]
    /\ d_flags = [n \in DiscNames |-> TRUE]
    /\ ema_data = [k \in GenNames |-> Unit]

\* The parameter names of the network requires_grad is tried on: indices
\* one of which is a prefix of another, a name behind a wrapper's prefix,
\* and names with no index.
RGNames ==
    {ConvsPat(1) \o <<".", "weight">>, ConvsPat(10) \o <<".", "weight">>,
     <<"module.">> \o ConvsPat(1) \o <<".", "bias">>,
     ToRgbsPat(1) \o <<".", "weight">>,
     <<"final_", "conv.", "weight">>, <<"conv1.", "weight">>}

\* The target_layer values it is tried with.
RGTargets ==
    {None, ConvsPat(1), ConvsPat(10), ConvsPat(-1), ToRgbsPat(1), FinalPat, <<>>}

InitRG ==
    /\ IdleTrain /\ IdleAcc /\ IdleMix /\ IdleSD /\ IdleWorkers
    /\ rg_model \in [RGNames -> BOOLEAN]
    /\ rg_prev = rg_model
    /\ rg_call = [called |-> FALSE, flag |-> FALSE, target_layer |-> None]

\* requires_grad(model, flag, target_layer) is called.
CallRequiresGrad ==
    /\ \E flag \in BOOLEAN, target_layer \in RGTargets :
          /\ rg_model' = requires_grad(rg_model, flag, target_layer)
          /\ rg_call' = [called |-> TRUE, flag |-> flag, target_layer |-> target_layer]
    /\ rg_prev' = rg_model
    /\ UNCHANGED <<trainVars, accVars, auxVars>>

NextRG == CallRequiresGrad

SpecRG == InitRG /\ [][NextRG]_vars

\* --------------------------------------------------- accumulate under test

\* The parameter names and values of the networks accumulate is tried on.
AccNames == {<<"a.", "weight">>, <<"b.", "weight">>, <<"c.", "weight">>}
AccVals == {0, 4 * Unit}
AccDecays == {<<0, 1>>, <<1, 2>>, <<3, 4>>}

\* The networks over some of the names, in any order of named_parameters().
AccModels ==
    {[names |-> order, data |-> data] :
        order \in {o \in UNION {[1..k -> AccNames] : k \in 0..Cardinality(AccNames)} :
                      \A x, y \in DOMAIN o : x # y => o[x] # o[y]},
        data \in UNION {[S -> AccVals] : S \in SUBSET AccNames}}

InitAcc ==
    /\ IdleTrain /\ IdleRG /\ IdleMix /\ IdleSD /\ IdleWorkers
    /\ acc_model1 \in {m \in AccModels : DOMAIN m.data = {m.names[j] : j \in DOMAIN m.names}}
    /\ acc_model2 \in {m \in AccModels : DOMAIN m.data = {m.names[j] : j \in DOMAIN m.names}}
    /\ acc_decay \in AccDecays
    /\ acc_out = [called |-> FALSE, data |-> acc_model1.data, err |-> FALSE]

\* accumulate(model1, model2, decay) is called.
CallAccumulate ==
    /\ ~acc_out.called
    /\ LET r == accumulate(acc_model1, acc_model2, acc_decay)
       IN  acc_out' = [called |-> TRUE, data |-> r.data, err |-> r.err]
    /\ UNCHANGED <<trainVars, rgVars, auxVars, acc_model1, acc_model2, acc_decay>>

NextAcc == CallAccumulate

SpecAcc == InitAcc /\ [][NextAcc]_vars

\* ------------------------------------------------- mixing_noise under test

\* The largest batch size and latent dimension mixing_noise is tried with.
MaxBatch == 2
MaxLatent == 2

\* torch.randn(batch, latent_dim): a tensor, by its shape.
Randn(batch, latent_dim) == [shape |-> <<batch, latent_dim>>]

\* make_noise(batch, latent_dim, n_noise, device): one tensor when
\* n_noise == 1, else the n_noise tensors of randn(n_noise, ...).unbind(0).
make_noise(batch, latent_dim, n_noise) ==
    IF n_noise = 1 THEN Randn(batch, latent_dim)
    ELSE [j \in 1..n_noise |-> Randn(batch, latent_dim)]

\* A broken mixing_noise that compares the draw with <= only.
mixing_noise_le(batch, latent_dim, prob, draw) ==
    IF draw <= prob
    THEN make_noise(batch, latent_dim, 2)
    ELSE <<make_noise(batch, latent_dim, 1)>>

\* mixing_noise(batch, latent_dim, prob, device), draw being the value
\* random.random() returns if it is called.
mixing_noise(batch, latent_dim, prob, draw) ==
    IF prob > 0 /\ draw < prob
    THEN make_noise(batch, latent_dim, 2)
    ELSE <<make_noise(batch, latent_dim, 1)>>

\* The probabilities tried (args.mixing defaults to 0.9) and the values of
\* random.random(), which lie in [0, 1).
MixProbs == {0, 1, Unit \div 2, (9 * Unit) \div 10, Unit}
MixDraws == {0, 1, Unit \div 2, (9 * Unit) \div 10, Unit - 1}

InitMix ==
    /\ IdleTrain /\ IdleRG /\ IdleAcc /\ IdleSD /\ IdleWorkers
    /\ \E batch \in 1..MaxBatch, latent_dim \in 1..MaxLatent, prob \in MixProbs :
          mix = [called |-> FALSE, batch |-> batch, latent_dim |-> latent_dim,
                 prob |-> prob, draw |-> 0, out |-> <<>>]

\* mixing_noise(batch, latent_dim, prob, device) is called.
CallMixingNoise ==
    /\ \E draw \in MixDraws :
          mix' = [mix EXCEPT !.called = TRUE, !.draw = draw,
                             !.out = mixing_noise(mix.batch, mix.latent_dim, mix.prob, draw)]
    /\ UNCHANGED <<trainVars, rgVars, accVars, sd, workers>>

NextMix == CallMixingNoise

SpecMix == InitMix /\ [][NextMix]_vars

\* -------------------------------------------------- sample_data under test

\* The largest number of batches of a pass over the loader, and the number
\* of next() calls made.
MaxLoaderLen == 3
MaxNext == 6

\* The orders iter(loader) can yield the n batches in (the sampler shuffles).
LoaderOrders(n) == {o \in [1..n -> 1..n] : \A x, y \in 1..n : x # y => o[x] # o[y]}

\* A broken sample_data without the `while True`: one pass and the
\* generator returns.
sample_data_once(g, fresh) ==
    IF g.state = "created"
    THEN IF g.len = 0 THEN [g EXCEPT !.state = "stopped", !.orders = Append(@, fresh)]
         ELSE [g EXCEPT !.state = "suspended", !.order = fresh, !.pos = 1,
                        !.orders = Append(@, fresh), !.hist = Append(@, fresh[1])]
    ELSE IF g.pos < g.len
    THEN [g EXCEPT !.pos = @ + 1, !.hist = Append(@, g.order[g.pos + 1])]
    ELSE [g EXCEPT !.state = "stopped"]

\* next() of the generator sample_data(loader): the body runs to the next
\* yield.  `for batch in loader` takes iter(loader), whose order is fresh;
\* when it is exhausted `while True` starts another.  A loader without
\* batches never reaches a yield.
sample_data(g, fresh) ==
    IF g.state = "created" \/ g.pos >= g.len
    THEN IF g.len = 0 THEN [g EXCEPT !.state = "hung", !.orders = Append(@, fresh)]
         ELSE [g EXCEPT !.state = "suspended", !.order = fresh, !.pos = 1,
                        !.orders = Append(@, fresh), !.hist = Append(@, fresh[1])]
    ELSE [g EXCEPT !.pos = @ + 1, !.hist = Append(@, g.order[g.pos + 1])]

\* loader = sample_data(loader): the generator is created, nothing runs yet.
InitSD ==
    /\ IdleTrain /\ IdleRG /\ IdleAcc /\ IdleMix /\ IdleWorkers
    /\ \E n \in 0..MaxLoaderLen :
          sd = [len |-> n, state |-> "created", order |-> <<>>, pos |-> 0,
                calls |-> 0, orders |-> <<>>, hist |-> <<>>]

\* next(loader)
CallNext ==
    /\ sd.state \in {"created", "suspended"}
    /\ sd.calls < MaxNext
    /\ \E fresh \in LoaderOrders(sd.len) :
          sd' = [sample_data(sd, fresh) EXCEPT !.calls = sd.calls + 1]
    /\ UNCHANGED <<trainVars, rgVars, accVars, mix, workers>>

NextSD == CallNext

SpecSD == InitSD /\ [][NextSD]_vars

\* ------------------------------------------------------ a multi-worker run

\* The number of processes (WORLD_SIZE).
NumWorkers == 2

Ranks == 0..(NumWorkers - 1)

\* The sum of vals[0..n-1].
RECURSIVE SumRanks(_, _)
SumRanks(vals, n) == IF n = 0 THEN 0 ELSE vals[n - 1] + SumRanks(vals, n - 1)

\* reduce_sum(tensor) of the workers' tensors: the sum, the same on every
\* worker; the argument is not changed.
reduce_sum(vals) == SumRanks(vals, NumWorkers)

\* A broken reduction that stores the reduced mean in mean_path_length.
PathReduce_shared(w, vals) ==
    [w EXCEPT !.mean_path_length = reduce_sum(vals) \div NumWorkers,
              !.mean_path_length_avg = reduce_sum(vals) \div NumWorkers]

\* mean_path_length_avg = reduce_sum(mean_path_length).item() / get_world_size()
PathReduce(w, vals) ==
    [w EXCEPT !.mean_path_length_avg = reduce_sum(vals) \div NumWorkers]

\* A broken report that reduces the losses inside the rank-0 block.
ReducesLossDict_rank0(rank) == rank = 0

\* Whether the worker of this rank calls reduce_loss_dict: the call is
\* before, not inside, `if get_rank() == 0`.
ReducesLossDict(rank) == TRUE

\* The iteration index of worker w.
WorkerI(w) == w.idx + args.start_iter

\* Every worker has called train with the same args: the locals of lines
\* 131-169.  Of each worker: its position, the collective operation it
\* waits in, the backward passes and reductions it has completed, its
\* mean_path_length and mean_path_length_avg, the running mean of its own
\* path lengths alone, and the reports it has printed.
InitWorkers ==
    /\ InitCommon
    /\ pc = "workers"
    /\ \E a \in ArgsOf(0..MaxStart, 1..MaxIter, {None}) :
          /\ a.distributed /\ a.freezeD = -1 /\ a.freezeG \in {-1, 1}
          /\ a.freezeStyle = -1 /\ ~a.freezeFC /\ a.structure_loss = -1
          /\ args = a
    /\ ckpt_file = NoCkptFile
    /\ g_flags = [n \in Wrap(GenNames, TRUE) |-> TRUE]
    /\ d_flags = [n \in Wrap(DiscNames, TRUE) |-> TRUE]
    /\ ema_data = [k \in GenNames |-> Unit]
    /\ IdleRG /\ IdleAcc /\ IdleMix /\ IdleSD
    /\ workers = [r \in Ranks |->
                    [pc |-> "top", idx |-> 0, at |-> "none", log |-> <<>>,
                     mean_path_length |-> 0, mean_path_length_avg |-> 0,
                     local_mean |-> 0, reported |-> 0]]

\* Worker r alone takes a step that changes its record to w.
WorkerSets(r, w) ==
    /\ workers' = [workers EXCEPT ![r] = w]
    /\ UNCHANGED <<trainVars, rgVars, accVars, mix, sd>>

\* Worker r reaches a collective operation and waits in it for the others.
Arrives(r, op) == WorkerSets(r, [workers[r] EXCEPT !.at = op])

\* Lines 173-182 on worker r: the loop header, the exit test, the fetch.
WTop(r) ==
    LET w == workers[r]
    IN  /\ w.pc = "top" /\ w.at = "none"
        /\ IF w.idx >= args.iter + args.start_iter \/ ExitTest(args, WorkerI(w))
           THEN WorkerSets(r, [w EXCEPT !.pc = "done"])
           ELSE WorkerSets(r, [w EXCEPT !.pc = "phaseD"])

\* Lines 185-260 on worker r: the discriminator phase up to d_loss.backward(),
\* in which the wrapper all-reduces the gradients.
WPhaseD(r) ==
    /\ workers[r].pc = "phaseD" /\ workers[r].at = "none"
    /\ Arrives(r, "backward:d")

\* Lines 262-264 on worker r.
WTune(r) ==
    /\ workers[r].pc = "tune" /\ workers[r].at = "none"
    /\ WorkerSets(r, [workers[r] EXCEPT !.pc = "r1"])

\* Lines 266-285 on worker r: the R1 step up to its backward().
WR1(r) ==
    LET w == workers[r]
    IN  /\ w.pc = "r1" /\ w.at = "none"
        /\ IF d_regularize(args, WorkerI(w))
           THEN Arrives(r, "backward:r1")
           ELSE WorkerSets(r, [w EXCEPT !.pc = "phaseG"])

\* Lines 293-357 on worker r: the generator phase up to g_loss.backward().
WPhaseG(r) ==
    /\ workers[r].pc = "phaseG" /\ workers[r].at = "none"
    /\ Arrives(r, "backward:g")

\* Lines 359-378 on worker r: the path-length step up to its backward(),
\* for this worker's own noise and path lengths.
WPathReg(r) ==
    LET w == workers[r]
    IN  /\ w.pc = "path" /\ w.at = "none"
        /\ IF g_regularize(args, WorkerI(w))
           THEN \E pl \in 0..MaxLoss :
                  WorkerSets(r, [w EXCEPT
                      !.local_mean = g_path_regularize(pl * Unit, w.local_mean)[2],
                      !.mean_path_length = g_path_regularize(pl * Unit, w.mean_path_length)[2],
                      !.at = "backward:path"])
           ELSE WorkerSets(r, [w EXCEPT !.pc = "ema"])

\* Lines 380-383 on worker r: g_optim.step() and the call of reduce_sum.
WPathReduce(r) ==
    /\ workers[r].pc = "pathReduce" /\ workers[r].at = "none"
    /\ Arrives(r, "reduce_sum")

\* Line 388 on worker r.
WEma(r) ==
    /\ workers[r].pc = "ema" /\ workers[r].at = "none"
    /\ WorkerSets(r, [workers[r] EXCEPT !.pc = "report"])

\* The rank-0 block of lines 400-468 and the next pass of the loop.
Reported(r, w) ==
    [w EXCEPT !.pc = "top", !.idx = @ + 1,
              !.reported = IF r = 0 THEN @ + 1 ELSE @]

\* Lines 390-469 on worker r: reduce_loss_dict, then the reporting.
WReport(r) ==
    /\ workers[r].pc = "report" /\ workers[r].at = "none"
    /\ IF ReducesLossDict(r) THEN Arrives(r, "reduce_loss_dict")
       ELSE WorkerSets(r, Reported(r, workers[r]))

\* Where a worker continues after the collective operation op.
AfterCollective(r, w, op) ==
    LET v == [w EXCEPT !.at = "none", !.log = Append(@, op)]
    IN  CASE op = "backward:d" -> [v EXCEPT !.pc = "tune"]
          [] op = "backward:r1" -> [v EXCEPT !.pc = "phaseG"]
          [] op = "backward:g" -> [v EXCEPT !.pc = "path"]
          [] op = "backward:path" -> [v EXCEPT !.pc = "pathReduce"]
          [] op = "reduce_sum" ->
                PathReduce([v EXCEPT !.pc = "ema"],
                           [q \in Ranks |-> workers[q].mean_path_length])
          [] OTHER -> Reported(r, v)

\* A collective operation completes once every worker is in it: all of
\* them in the same one.
Collective ==
    /\ \A r \in Ranks : workers[r].at # "none"
    /\ \A r, q \in Ranks : workers[r].at = workers[q].at
    /\ workers' = [r \in Ranks |-> AfterCollective(r, workers[r], workers[r].at)]
    /\ UNCHANGED <<trainVars, rgVars, accVars, mix, sd>>

NextWorkers ==
    \/ \E r \in Ranks : WTop(r)
    \/ \E r \in Ranks : WPhaseD(r)
    \/ \E r \in Ranks : WTune(r)
    \/ \E r \in Ranks : WR1(r)
    \/ \E r \in Ranks : WPhaseG(r)
    \/ \E r \in Ranks : WPathReg(r)
    \/ \E r \in Ranks : WPathReduce(r)
    \/ \E r \in Ranks : WEma(r)
    \/ \E r \in Ranks : WReport(r)
    \/ Collective

SpecWorkers == InitWorkers /\ [][NextWorkers]_vars

\* ================================================================ claims

\* The positions of the loop at which the iteration's R1 step is behind.
AfterR1 == {"phaseG", "path", "ema", "report"}
\* The positions of the loop at which the generator phase is behind.
AfterG == {"path", "ema", "report"}

\* C1 (as claimed): train runs the body for every index i with
\* start_iter <= i < start_iter + iter, never for an index above
\* start_iter + iter, tests for the exit before it fetches a batch, and
\* then terminates.
C1_RunsToConfiguredTotal ==
    /\ \A n \in executed : n <= args.start_iter + args.iter
    /\ \A j \in 1..Len(trace) :
          trace[j].op = "next" => \E k \in 1..(j - 1) : trace[k].op = "exit_test"
    /\ pc = "done" =>
          \A n \in args.start_iter..(args.start_iter + args.iter - 1) : n \in executed

\* The parameters of the k highest-resolution generator blocks.
TopBlocks(k) ==
    GenNames \cap
    UNION {{ConvsPat(num_layers - 2 - 2 * l) \o <<".", "conv.", "weight">>,
            ConvsPat(num_layers - 3 - 2 * l) \o <<".", "conv.", "weight">>,
            ToRgbsPat(log_size - 3 - l) \o <<".", "conv.", "weight">>} : l \in 0..(k - 1)}

\* C2 (as claimed): with freezeG = k > 0, after the discriminator and the
\* generator phase the k highest-resolution blocks are unchanged and the
\* other generator parameters have been updated.
C2_TopBlocksFrozen ==
    (pc \in AfterG /\ args.freezeG > 0) =>
        /\ \A n \in TopBlocks(args.freezeG) : g_data[n] = before.g_data[n]
        /\ \A n \in GenNames \ TopBlocks(args.freezeG) : g_data[n] # before.g_data[n]

\* C2 (amended): with freezeG = k > 0, after the discriminator and the
\* generator phase the parameters of the k highest-resolution blocks have
\* been updated by the generator optimizer step and every other generator
\* parameter is unchanged.
C2_OnlyTopBlocksTrained ==
    (pc \in AfterG /\ args.freezeG > 0) =>
        /\ \A n \in TopBlocks(args.freezeG) : g_data[n] # before.g_data[n]
        /\ \A n \in GenNames \ TopBlocks(args.freezeG) : g_data[n] = before.g_data[n]

C2_Witness ==
    /\ pc = "path" /\ args.freezeG = 2 /\ idx = 0
    /\ \E n \in TopBlocks(2) : g_data[n] # before.g_data[n]
    /\ \E n \in GenNames \ TopBlocks(2) : g_data[n] = before.g_data[n]

\* C3 (as claimed): the r1 entry of the loss dict is zero on every
\* iteration with i % d_reg_every != 0.
C3_R1ZeroOffSchedule ==
    (pc \in AfterR1 /\ i % args.d_reg_every # 0) => loss_dict["r1"] = 0

\* C3 (amended): on an iteration with i % d_reg_every != 0 the r1 entry of
\* the loss dict is the value the last R1 step left (the value the
\* iteration started with), and zero if no R1 step has run in this call.
C3_R1CarriedOffSchedule ==
    (pc \in AfterR1 /\ i % args.d_reg_every # 0) =>
        /\ loss_dict["r1"] = before.r1_loss
        /\ (\A n \in executed : n % args.d_reg_every # 0) => loss_dict["r1"] = 0

C3_Witness ==
    /\ pc = "phaseG" /\ i % args.d_reg_every # 0
    /\ loss_dict["r1"] # 0

\* The entries of the trace made in phase ph, in order.
RECURSIVE PhaseOps(_, _)
PhaseOps(t, ph) ==
    IF t = <<>> THEN <<>>
    ELSE (IF t[1].ph = ph /\ t[1].op # "augment" THEN <<t[1].op>> ELSE <<>>)
         \o PhaseOps(Tail(t), ph)

\* C4: the R1 step (recompute the real prediction, zero the discriminator
\* gradients, backward, d_optim.step) runs in iteration i iff
\* i % d_reg_every == 0; the discriminator optimizer steps twice in such an
\* iteration and once in every other.
C4_R1StepGated ==
    pc = "report" =>
        LET reg == (i % args.d_reg_every = 0)
        IN  /\ PhaseOps(trace, "r1") =
                  IF reg THEN <<"forward", "zero_grad", "backward", "step">> ELSE <<>>
            /\ Count(trace, "step", "D") = IF reg THEN 2 ELSE 1

C4_Witness ==
    /\ pc = "report" /\ args.d_reg_every = 2 /\ i = 2
    /\ Count(trace, "step", "D") = 2

\* C5: the path-length step runs in iteration i only when freezeG < 0 and
\* i % g_reg_every == 0; in every other iteration mean_path_length is left
\* unchanged and the generator optimizer steps exactly once.
C5_PathStepGated ==
    pc = "report" =>
        LET gated == (args.freezeG < 0 /\ i % args.g_reg_every = 0)
        IN  /\ PhaseOps(trace, "path") # <<>> => gated
            /\ ~gated => /\ mean_path_length = before.mean_path_length
                         /\ Count(trace, "step", "G") = 1
                         /\ PhaseOps(trace, "path") = <<>>

C5_Witness ==
    /\ pc = "report" /\ args.freezeG < 0 /\ args.g_reg_every = 2 /\ i = 2
    /\ PhaseOps(trace, "path") =
          <<"forward", "zero_grad", "backward", "step", "reduce_sum">>
    /\ mean_path_length # before.mean_path_length
    /\ Count(trace, "step", "G") = 2

\* C8: in every executed iteration, whatever the freeze options and the
\* regularisation gates, accumulate(g_ema, g_module, accum) is called
\* exactly once, with the unwrapped generator as source, after the last
\* generator optimizer step and before the loss reduction.
C8_EmaOncePerIteration ==
    /\ pc # "raised"
    /\ (pc = "top" /\ idx > 0) =>
        /\ Cardinality({j \in 1..Len(trace) : trace[j].op = "accumulate"}) = 1
        /\ \A j \in 1..Len(trace) : trace[j].op = "accumulate" =>
              /\ trace[j].on = "generator"
              /\ \A k \in Positions(trace, "step", "G") : k < j
              /\ \E k \in Positions(trace, "reduce_loss_dict", "loss_dict") : j < k
              /\ \A k \in Positions(trace, "reduce_loss_dict", "loss_dict") : j < k

C8_Witness ==
    /\ pc = "top" /\ idx > 0
    /\ args.distributed /\ args.freezeD > 0 /\ args.freezeStyle >= 0 /\ args.freezeFC
    /\ Count(trace, "accumulate", "generator") = 1
    /\ Count(trace, "step", "G") = 2

\* C6: requires_grad(model, flag) with no target_layer sets every flag to
\* flag; with a target_layer it changes only the parameters whose name
\* contains it and leaves the others as they were (all False and then a
\* pattern True leaves exactly the matching ones True); the same call a
\* second time changes nothing.
C6_RequiresGradFrame ==
    rg_call.called =>
        LET t == rg_call.target_layer
            matching == {n \in RGNames : Contains(t, n)}
        IN  /\ t = None => \A n \in RGNames : rg_model[n] = rg_call.flag
            /\ t # None =>
                  /\ \A n \in matching : rg_model[n] = rg_call.flag
                  /\ \A n \in RGNames \ matching : rg_model[n] = rg_prev[n]
            /\ (t # None /\ rg_call.flag /\ \A n \in RGNames : ~rg_prev[n]) =>
                  {n \in RGNames : rg_model[n]} = matching
            /\ requires_grad(rg_model, rg_call.flag, t) = rg_model

C6_Witness ==
    /\ rg_call.called /\ rg_call.flag /\ rg_call.target_layer = ConvsPat(1)
    /\ \A n \in RGNames : ~rg_prev[n]
    /\ {n \in RGNames : rg_model[n]} =
          {ConvsPat(1) \o <<".", "weight">>, ConvsPat(10) \o <<".", "weight">>,
           <<"module.">> \o ConvsPat(1) \o <<".", "bias">>}

\* C7 (as claimed): accumulate pairs the parameters by name: a shadow
\* parameter with a same-named source parameter becomes
\* shadow*decay + source*(1-decay), a parameter without counterpart is left
\* unchanged, and the call completes without error whatever the two
\* networks' names and their order.
C7_AccumulateByName ==
    acc_out.called =>
        /\ ~acc_out.err
        /\ \A k \in DOMAIN acc_model1.data :
              IF k \in DOMAIN acc_model2.data
              THEN acc_out.data[k] * acc_decay[2] =
                      acc_model1.data[k] * acc_decay[1]
                      + acc_model2.data[k] * (acc_decay[2] - acc_decay[1])
              ELSE acc_out.data[k] = acc_model1.data[k]

\* C9 (as claimed): after a resume with adaptive augmentation the
\* augmentation probability used in the first iteration is the ada_aug_p
\* stored in the checkpoint.
C9_ResumeRestoresAdaAugP ==
    (args.ckpt # None /\ args.augment /\ args.augment_p = 0 /\ idx = 0 /\ pc = "tune") =>
        \A j \in 1..Len(trace) :
            trace[j].op = "augment" => trace[j].arg = ckpt_file.ada_aug_p

\* C10 (as claimed): resumed from model_checkpoint_<n>.pt, args.start_iter
\* is n when train is called.
C10_StartIterFromFilename ==
    \A n \in CkptIters :
        (args.ckpt = CkptName(n) /\ pc \notin {"main", "resume"}) => args.start_iter = n

\* C11: whatever the checkpoint's path, the resume does not abort: the
\* failure to parse the start iteration is passed over, args.start_iter
\* stays 0, and the states of the networks and of the optimizers are the
\* checkpoint's when train is called.
C11_ParseFailureSwallowed ==
    /\ (args.ckpt # None /\ pc \notin {"main", "resume"}) =>
          /\ args.start_iter = 0
          /\ ~(pc = "raised" /\ idx = 0 /\ trace = <<>>)
    /\ (args.ckpt # None /\ pc = "train") =>
          /\ g_data = ckpt_file.g
          /\ d_data = ckpt_file.d
          /\ ema_data = ckpt_file.g_ema
          /\ optim = [g |-> ckpt_file.g_optim, d |-> ckpt_file.d_optim]

C11_Witness ==
    /\ pc = "train" /\ args.ckpt = PlainName(499) /\ args.start_iter = 0
    /\ g_data = ckpt_file.g /\ g_data # [k \in GenNames |-> Unit]
    /\ optim.g = ckpt_file.g_optim /\ optim.g # 0

\* C12 (as claimed): the sign accumulator is evaluated, and ada_aug_p
\* adjusted, only when the number of tune calls since the last evaluation
\* reaches args.ada_every.
C12_AdaEveryIsWindow ==
    (pc = "r1" /\ adaptive(args) /\ ada_augment.ada_update = 0) =>
        (idx + 1) % args.ada_every = 0

\* C13: ada_augment.tune is called in an iteration iff augmentation is on
\* and augment_p == 0, and then exactly once, after the discriminator step
\* and before the R1 step; with a static augment_p > 0, ada_aug_p equals
\* augment_p in every iteration and r_t_stat stays 0.
C13_TuneGated ==
    /\ pc = "report" =>
          LET tunes == {j \in 1..Len(trace) : trace[j].op = "tune"}
          IN  /\ Cardinality(tunes) = IF args.augment /\ args.augment_p = 0 THEN 1 ELSE 0
              /\ \A j \in tunes :
                    /\ \E k \in 1..(j - 1) : trace[k] = Ev("step", "D", "d", 0)
                    /\ \A k \in 1..Len(trace) : trace[k].ph = "r1" => j < k
                    /\ \A k \in 1..Len(trace) : trace[k].ph = "d" => k < j
    /\ (args.augment_p > 0 /\ pc # "train") =>
          /\ ada_aug_p = args.augment_p
          /\ r_t_stat = 0
          /\ \A j \in 1..Len(trace) :
                trace[j].op = "augment" => trace[j].arg = args.augment_p

C13_Witness ==
    /\ pc = "report" /\ args.augment /\ args.augment_p = 0
    /\ Count(trace, "tune", "ada_augment") = 1
    /\ Count(trace, "step", "D") = 2
    /\ ada_aug_p > 0 /\ r_t_stat # 0

\* C14: mixing_noise with prob = 0 returns exactly one noise tensor and
\* with prob = 1 exactly two, each of shape [batch, latent_dim], whatever
\* random.random() draws from [0, 1).
C14_MixingNoiseExtremes ==
    mix.called =>
        /\ mix.prob = 0 => Len(mix.out) = 1
        /\ mix.prob = Unit => Len(mix.out) = 2
        /\ (mix.prob \in {0, Unit}) =>
              \A j \in 1..Len(mix.out) : mix.out[j] = Randn(mix.batch, mix.latent_dim)

C14_Witness ==
    /\ mix.called /\ mix.prob = Unit /\ mix.draw = Unit - 1
    /\ mix.out = <<Randn(mix.batch, mix.latent_dim), Randn(mix.batch, mix.latent_dim)>>

\* C15: for a loader with at least one batch per pass, every next() on
\* sample_data(loader) returns a batch and none raises StopIteration; the
\* batches of a pass come in the order of that pass over the loader, each
\* batch once, and a fresh pass is started exactly when the previous one is
\* exhausted.
C15_SampleDataNeverEnds ==
    sd.len >= 1 =>
        /\ sd.state \in {"created", "suspended"}
        /\ Len(sd.hist) = sd.calls
        /\ Len(sd.orders) = (sd.calls + sd.len - 1) \div sd.len
        /\ \A o \in 1..Len(sd.orders) : sd.orders[o] \in LoaderOrders(sd.len)
        /\ \A k \in 1..Len(sd.hist) :
              sd.hist[k] = sd.orders[((k - 1) \div sd.len) + 1][((k - 1) % sd.len) + 1]

C15_Witness ==
    /\ sd.len = 2 /\ sd.calls = 5 /\ Len(sd.hist) = 5 /\ Len(sd.orders) = 3
    /\ sd.orders[1] # sd.orders[2]
    /\ sd.state = "suspended"

\* The phases the entries of a trace belong to, in order, each run of
\* entries of one phase counted once.
RECURSIVE Phases(_)
Phases(t) ==
    IF t = <<>> THEN <<>>
    ELSE IF Len(t) > 1 /\ t[1].ph = t[2].ph THEN Phases(Tail(t))
    ELSE <<t[1].ph>> \o Phases(Tail(t))

\* The zero_grad, backward and step entries of phase ph of a trace, in order.
RECURSIVE Updates(_, _)
Updates(t, ph) ==
    IF t = <<>> THEN <<>>
    ELSE (IF t[1].ph = ph /\ t[1].op \in {"zero_grad", "backward", "step"}
          THEN <<t[1]>> ELSE <<>>)
         \o Updates(Tail(t), ph)

\* C16: an executed iteration runs batch fetch, discriminator update,
\* adaptive tune (if gated in), R1 update (if gated in), generator update,
\* path-length update (if gated in), EMA update, loss reduction, in this
\* order; each update is zero_grad, one backward, one optimizer step of the
\* same network, the discriminator's in the discriminator and R1 steps and
\* the generator's in the generator and path-length steps.
C16_StepOrder ==
    (pc = "top" /\ idx > 0) =>
        LET n == i - 1
            tuned == args.augment /\ args.augment_p = 0
            r1 == n % args.d_reg_every = 0
            path == args.freezeG < 0 /\ n % args.g_reg_every = 0
        IN  /\ Phases(trace) =
                  <<"top", "d">> \o (IF tuned THEN <<"tune">> ELSE <<>>)
                  \o (IF r1 THEN <<"r1">> ELSE <<>>) \o <<"g">>
                  \o (IF path THEN <<"path">> ELSE <<>>) \o <<"ema", "report">>
            /\ trace[1].op = "exit_test" /\ trace[2].op = "next"
            /\ Count(trace, "next", "loader") = 1
            /\ \A ph \in {"d", "r1"} :
                  Updates(trace, ph) # <<>> =>
                      Updates(trace, ph) = <<Ev("zero_grad", "D", ph, 0),
                                             Ev("backward", "D", ph, 0),
                                             Ev("step", "D", ph, 0)>>
            /\ \A ph \in {"g", "path"} :
                  Updates(trace, ph) # <<>> =>
                      Updates(trace, ph) = <<Ev("zero_grad", "G", ph, 0),
                                             Ev("backward", "G", ph, 0),
                                             Ev("step", "G", ph, 0)>>
            /\ Updates(trace, "d") # <<>> /\ Updates(trace, "g") # <<>>
            /\ (Updates(trace, "r1") # <<>>) = r1
            /\ (Updates(trace, "path") # <<>>) = path
            /\ \A ph \in {"top", "tune", "ema", "report"} : Updates(trace, ph) = <<>>

C16_Witness ==
    /\ pc = "top" /\ idx > 0
    /\ Phases(trace) = <<"top", "d", "tune", "r1", "g", "path", "ema", "report">>
    /\ Updates(trace, "r1") = UpdateOps("D", "r1")
    /\ Updates(trace, "path") = UpdateOps("G", "path")

\* The positions of the loop between the discriminator phase's ladder and
\* the generator phase's: the discriminator step and the R1 step run with
\* the flags these states hold.
AtDUpdates == {"tune", "r1", "phaseG"}
\* The positions after the generator phase's ladder: the generator step and
\* the path-length step run with the flags these states hold.
AtGUpdates == {"path", "ema", "report"}

\* C17: whatever freezeG and freezeD are, no generator parameter is
\* trainable at the backward and optimizer step of the discriminator phase
\* and of the R1 step, and no discriminator parameter is trainable at those
\* of the generator phase and of the path-length step.
C17_OtherNetworkFrozen ==
    /\ pc \in AtDUpdates => \A n \in DOMAIN g_flags : ~g_flags[n]
    /\ pc \in AtGUpdates => \A n \in DOMAIN d_flags : ~d_flags[n]

C17_Witness ==
    /\ pc = "path" /\ idx = 1 /\ args.freezeG = 2 /\ args.freezeD = 1
    /\ \E n \in DOMAIN before.g_flags : before.g_flags[n]
    /\ \E n \in DOMAIN g_flags : g_flags[n]
    /\ \A n \in DOMAIN d_flags : ~d_flags[n]
    /\ Count(trace, "step", "D") = 2 /\ Count(trace, "step", "G") = 1

\* Flags a network can have been left with: all set, all clear, one set,
\* one clear.
FlagFamilies(names) ==
    {[n \in names |-> b] : b \in BOOLEAN}
    \cup {[n \in names |-> (n = m) = b] : m \in names, b \in BOOLEAN}

\* C18: the flags in effect at the updates of a phase are the same
\* whatever flags the two networks had before: started from any other
\* flags, the ladders of the discriminator phase, and those of the
\* generator phase after them, give the flags the run has on every
\* parameter of both networks.
C18_FlagsFromPhaseAndConfig ==
    LET gset == [n \in DOMAIN g_flags |-> TRUE]
        dset == [n \in DOMAIN d_flags |-> TRUE]
    IN  /\ pc \in AtDUpdates =>
              /\ g_flags = PhaseD_G(args, gset)
              /\ d_flags = PhaseD_D(args, dset)
        /\ pc \in AtGUpdates =>
              /\ g_flags = PhaseG_G(args, PhaseD_G(args, gset))
              /\ d_flags = PhaseG_D(args, PhaseD_D(args, dset))
        /\ pc = "tune" =>
              /\ \A f \in FlagFamilies(DOMAIN g_flags) :
                    PhaseD_G(args, f) = PhaseD_G(args, gset)
              /\ \A f \in FlagFamilies(DOMAIN d_flags) :
                    PhaseD_D(args, f) = PhaseD_D(args, dset)

C18_Witness ==
    /\ pc = "tune" /\ idx = 0 /\ args.freezeD = 1 /\ args.freezeG = 2
    /\ \A n \in DOMAIN before.d_flags : before.d_flags[n]
    /\ \E n \in DOMAIN d_flags : d_flags[n]
    /\ \E n \in DOMAIN d_flags : ~d_flags[n]
    /\ \A n \in DOMAIN g_flags : ~g_flags[n]

\* Sequence a is a prefix of sequence b.
IsPrefix(a, b) == Len(a) <= Len(b) /\ SubSeq(b, 1, Len(a)) = a

\* C19: with the same args on every worker, the workers complete the same
\* sequence of backward passes and reductions and leave the loop at the
\* same index: two workers never wait in different collective operations,
\* none waits in one while another has left the loop, and the reporting of
\* rank 0 adds no operation to its sequence.
C19_WorkersInStep ==
    pc = "workers" =>
        \A r, q \in Ranks :
            LET w == workers[r]
                v == workers[q]
            IN  /\ IsPrefix(w.log, v.log) \/ IsPrefix(v.log, w.log)
                /\ (w.at # "none" /\ v.at # "none") =>
                      (w.at = v.at /\ w.log = v.log /\ w.idx = v.idx)
                /\ ~(w.pc = "done" /\ v.at # "none")
                /\ (w.pc = "done" /\ v.pc = "done") => (w.idx = v.idx /\ w.log = v.log)
                /\ w.reported = IF r = 0 THEN w.idx ELSE 0

C19_Witness ==
    /\ pc = "workers"
    /\ \A r \in Ranks : workers[r].pc = "done" /\ workers[r].idx = 2
    /\ workers[0].log = workers[1].log
    /\ \E j \in 1..Len(workers[0].log) : workers[0].log[j] = "reduce_sum"
    /\ \E j \in 1..Len(workers[0].log) : workers[0].log[j] = "backward:r1"
    /\ workers[0].reported = 2 /\ workers[1].reported = 0
    /\ workers[0].mean_path_length # workers[1].mean_path_length

\* Every worker has just left the reduction of a path-length step.
JustReduced ==
    /\ pc = "workers"
    /\ \A r \in Ranks : workers[r].pc = "ema" /\ workers[r].at = "none"
    /\ g_regularize(args, WorkerI(workers[0]))

\* C20 (as claimed): immediately after the reduction at the end of a
\* path-length step every worker holds the same mean_path_length.
C20_MeanPathLengthSynchronised ==
    JustReduced =>
        \A r, q \in Ranks : workers[r].mean_path_length = workers[q].mean_path_length

\* C20 (amended): the reduction leaves every worker's mean_path_length
\* what its own path lengths made it, which is what its next path-length
\* step starts from; immediately after the reduction every worker holds
\* the same mean_path_length_avg, the mean of the workers' values.
C20_OnlyAverageShared ==
    pc = "workers" =>
        /\ \A r \in Ranks : workers[r].mean_path_length = workers[r].local_mean
        /\ JustReduced =>
              \A r \in Ranks :
                  workers[r].mean_path_length_avg =
                      SumRanks([q \in Ranks |-> workers[q].mean_path_length], NumWorkers)
                      \div NumWorkers

C20_Witness ==
    /\ JustReduced
    /\ workers[0].idx = 1 /\ args.g_reg_every = 1
    /\ workers[0].mean_path_length # workers[1].mean_path_length
    /\ workers[0].mean_path_length_avg = workers[1].mean_path_length_avg
    /\ workers[0].mean_path_length_avg # workers[0].mean_path_length

\* C21: whatever the options (freezeStyle >= 0, freezeFC and
\* structure_loss > 0 included) and however many iterations have run, the
\* parameters of generator_source hold the values and the requires_grad
\* flags they had when train was called, and the only calls made on
\* generator_source are forward passes: no optimizer step, no zero_grad and
\* no accumulate.
C21_SourceReadOnly ==
    /\ src_data = [k \in GenNames |-> 2 * Unit]
    /\ src_flags = [k \in GenNames |-> TRUE]
    /\ \A j \in 1..Len(trace) :
          /\ trace[j].on = "generator_source" => trace[j].op = "forward"
          /\ trace[j].op \in {"accumulate", "step", "zero_grad", "backward"} =>
                trace[j].on \in {"generator", "G", "D"}

C21_Witness ==
    /\ pc = "top" /\ idx = 2
    /\ args.freezeStyle = 0 /\ args.freezeFC /\ args.structure_loss = 1
    /\ Count(trace, "forward", "generator_source") = 3
    /\ src_grad = GenNames
    /\ src_data = [k \in GenNames |-> 2 * Unit]
    /\ g_data # before.g_data

\* C22 (as claimed): whenever the generator-phase ladder has frozen no
\* generator layer, so that every generator parameter is trainable in the
\* generator phase (freezeG <= 0, freezeG = 0 included), the path-length
\* step runs in every iteration with i % g_reg_every == 0.
C22_FreezeGatesAgree ==
    (/\ pc = "report"
     /\ args.freezeG <= 0
     /\ \A n \in DOMAIN g_flags : g_flags[n]
     /\ i % args.g_reg_every = 0) =>
        /\ PhaseOps(trace, "path") # <<>>
        /\ Count(trace, "step", "G") = 2

====
